---- MODULE Spec2Model ----
(***************************************************************************)
(* Validator governance (node_manager): Propose / Vote / dirtyJob /        *)
(* Epoch / EpochProof and the consensus-sign gate CheckConsensusSigns.     *)
(* Storage is the contract's key-value store, one variable per key family. *)
(* Addresses are small integers; a proposal hash is modelled by the        *)
(* hashed content itself (ID, sorted peers, start height, proposer), so    *)
(* two hashes are equal exactly when the hashed contents are.              *)
(***************************************************************************)
EXTENDS Integers, Sequences, FiniteSets, TLC

\* ---------------------------------------------------------------- constants
\* mutant: the upper limit of the peer count one lower
MaxProposalPeersLenLow == 100 - 1
\* mutant: the start height window one block shorter
MaxEpochValidPeriodLow == 864000 - 1
\* mutant: votes are taken up to the start height itself
MinVoteEffectivePeriodNone == 10 - 10
\* mutant: one more proposal allowed per proposer and epoch id
MaxProposalNumPerEpochMore == 3 + 1
MinEpochValidPeriod == 60
DefaultEpochValidPeriod == 86400
MaxEpochValidPeriod == 864000
MinProposalPeersLen == 4
MaxProposalPeersLen == 100
MaxProposalNumPerEpoch == 3
MinVoteEffectivePeriod == 10

\* ------------------------------------------------------------------- bounds
\* at most MaxProposals Propose calls succeed in one run
MaxProposals == 2
\* the block height advances by HeightStep while it stays <= MaxHeight
HeightStep == 110
MaxHeight == 120
\* the explicit start height given to Propose
StartAt == 120
\* deposits counted per transaction before the handlers are called no more
MaxMade == 2

\* ------------------------------------------------------------- value spaces
ProposalStatusPropose == "Proposed"
ProposalStatusPassed == "Passed"

EmptyAddress == 0
\* an address that is never a validator (an intermediate contract)
ContractAddress == 9
Addresses == {1, 2, 3, 4, 5}

StartEpochID == 1

\* a peer whose public key derives its address, and one whose key does not
GoodPeer(a) == [Address |-> a, PubKey |-> a]
BadPeer(a) == [Address |-> a, PubKey |-> EmptyAddress]

EmptyHash == [ID |-> 0, Peers |-> <<>>, StartHeight |-> 0, Proposer |-> EmptyAddress]

VARIABLES
    curHash,        \* current epoch hash
    epochs,         \* hash -> EpochInfo
    proofs,         \* epoch id -> hash (epoch proof)
    proposals,      \* epoch id -> set of proposal hashes
    votes,          \* proposal hash -> set of voter addresses
    voteTo,         \* <<epoch id, voter>> -> last voted proposal hash
    signs,          \* stored ConsensusSign records, by hash
    signers,        \* sign hash -> set of signer addresses
    height,         \* block height
    feed,           \* events sent on epochChangeFeed, in order
    lastCall,       \* the last contract call and what it returned
    everProposed,   \* history: every hash a successful Propose indexed
    everPassed,     \* history: every hash a Vote stored with status Passed
    subs,           \* channels subscribed to epochChangeFeed: capacity, fill
    sending,        \* channels a Send in progress still waits to send to
    doneTx,         \* cross chain manager: <<cross-chain id, chain id>> done
    epochSwitchInfo, \* okex header sync: chain id -> epoch switch height
    made,           \* history: <<cross-chain id, chain id>> -> deposits made
    lastDeposit     \* the last MakeDepositProposal call and what it returned

storage == <<curHash, epochs, proofs, proposals, votes, voteTo, signs, signers>>
\* epochChangeFeed: what was sent on it, its subscribers, a Send in progress
epochChangeFeed == <<feed, subs, sending>>
\* the state of the cross chain manager and of the call records kept of it
crossChain == <<doneTx, epochSwitchInfo, made, lastDeposit>>
vars == <<curHash, epochs, proofs, proposals, votes, voteTo, signs, signers,
          height, feed, lastCall, everProposed, everPassed, subs, sending,
          doneTx, epochSwitchInfo, made, lastDeposit>>

\* ------------------------------------------------------------ EpochInfo API
\* EpochInfo.Hash: content hash over every field except Status
Hash(e) == [ID |-> e.ID, Peers |-> e.Peers, StartHeight |-> e.StartHeight, Proposer |-> e.Proposer]

\* EpochInfo.Members: the addresses of the epoch's peers
Members(e) == {e.Peers[i].Address : i \in 1..Len(e.Peers)}

\* EpochInfo.MemberList: the peers' addresses in stored order
MemberList(e) == [i \in 1..Len(e.Peers) |-> e.Peers[i].Address]

\* mutant: the quorum is a bare half of the group
QuorumOfHalf(n) == n \div 2

\* quorum_size(n): smallest q with 2q - n >= f + 1 where f = (n-1) div 3
QuorumOf(n) == IF n <= 0 THEN 0 ELSE (n + ((n - 1) \div 3) + 2) \div 2

QuorumSize(e) == QuorumOf(Len(e.Peers))

\* EpochInfo.OldMemberNum: members of e that peers retains, counted by address
OldMemberNum(e, peers) ==
    Cardinality(Members(e) \cap {peers[i].Address : i \in 1..Len(peers)})

\* checkPeer: the public key must derive the claimed address
checkPeer(p) == p.PubKey = p.Address

\* checkAuthority: origin is a member of the epoch and is the immediate caller
checkAuthority(origin, caller, e) ==
    /\ origin # EmptyAddress
    /\ caller # EmptyAddress
    /\ origin = caller
    /\ origin \in Members(e)

\* Peers.Less: the order sort.Sort arranges the peers in, by address
PeerLess(p, q) == p.Address < q.Address

\* mutant: the peers are hashed in the order given
SortPeersNot(peers) == peers

\* sort.Sort(peers): the peers in ascending order of address
SortPeers(peers) == SortSeq(peers, PeerLess)

\* -------------------------------------------------------- storage primitives
MapPut(m, k, v) == (k :> v) @@ m
MapDel(m, k) == [x \in (DOMAIN m) \ {k} |-> m[x]]
MapDelAll(m, ks) == [x \in (DOMAIN m) \ ks |-> m[x]]

getProposals(ps, id) == IF id \in DOMAIN ps THEN ps[id] ELSE {}
findProposal(ps, id, h) == h \in getProposals(ps, id)
storeProposal(ps, id, h) == MapPut(ps, id, getProposals(ps, id) \cup {h})
delProposal(ps, id, h) == MapPut(ps, id, getProposals(ps, id) \ {h})

\* proposalsNum: proposals indexed under id that proposer authored
proposalsNum(ps, id, proposer) ==
    Cardinality({h \in getProposals(ps, id) : h.Proposer = proposer})

getVotes(vs, h) == IF h \in DOMAIN vs THEN vs[h] ELSE {}
voteSize(vs, h) == Cardinality(getVotes(vs, h))
storeVote(vs, h, voter) == MapPut(vs, h, getVotes(vs, h) \cup {voter})
deleteVote(vs, h, voter) == IF h \in DOMAIN vs THEN MapPut(vs, h, vs[h] \ {voter}) ELSE vs
clearVotes(vs, h) == MapDel(vs, h)

findVoteTo(vt, id, voter) == IF <<id, voter>> \in DOMAIN vt THEN vt[<<id, voter>>] ELSE EmptyHash
storeVoteTo(vt, id, voter, h) == MapPut(vt, <<id, voter>>, h)
delVoteTo(vt, id, voter) == MapDel(vt, <<id, voter>>)

getSigners(sg, sh) == IF sh \in DOMAIN sg THEN sg[sh] ELSE {}
findSigner(sg, sh, signer) == signer \in getSigners(sg, sh)
getSignerSize(sg, sh) == Cardinality(getSigners(sg, sh))
storeSigner(sg, sh, signer) == MapPut(sg, sh, getSigners(sg, sh) \cup {signer})

\* ConsensusSign.Hash: content hash of (method, input)
SignHash(method, input) == <<method, input>>

\* ----------------------------------------------------- cross chain manager
\* the side chains registered with the side chain manager
SideChains == {1, 2}

\* source chain ids a call names: the registered chains and one that is not
ChainIDs == {1, 2, 3}

\* cross-chain ids carried by the proved transactions
CrossChainIDs == {1, 2}

\* block heights of the source chain a call names
SourceHeights == {0, 1}

NoDeposit == [handler |-> "None", chainID |-> 0, crossChainID |-> 0, res |-> "None"]

\* scom.CheckDoneTx: no error when the transaction is not yet done
CheckDoneTx(done, crossChainID, chainID) == <<crossChainID, chainID>> \notin done

\* scom.PutDoneTx: the transaction is done
PutDoneTx(done, crossChainID, chainID) == done \cup {<<crossChainID, chainID>>}

\* ------------------------------------------------------------------ genesis
GenesisPeers == <<GoodPeer(1), GoodPeer(2), GoodPeer(3), GoodPeer(4)>>

GenesisEpoch ==
    [ID |-> StartEpochID, Peers |-> GenesisPeers, StartHeight |-> 0,
     Proposer |-> EmptyAddress, Status |-> ProposalStatusPassed]

NoCall ==
    [op |-> "None", origin |-> EmptyAddress, caller |-> EmptyAddress, id |-> 0,
     hash |-> EmptyHash, sign |-> <<>>, res |-> "None", approved |-> FALSE,
     peers |-> <<>>, start |-> 0, fault |-> "None", snapshot |-> <<>>,
     reverted |-> FALSE]

\* no call is in progress: the contract runs one call at a time, a Vote
\* held in epochChangeFeed.Send has not returned, and the transaction of a
\* call that returned an error is closed by the host before the next one
Idle == lastCall.res # "InSend" /\ (lastCall.snapshot # <<>> => lastCall.reverted)

Init ==
    /\ curHash = Hash(GenesisEpoch)
    /\ epochs = (Hash(GenesisEpoch) :> GenesisEpoch)
    /\ proofs = (StartEpochID :> Hash(GenesisEpoch))
    /\ proposals = <<>>
    /\ votes = <<>>
    /\ voteTo = <<>>
    /\ signs = {}
    /\ signers = <<>>
    /\ height = 1
    /\ feed = <<>>
    /\ lastCall = NoCall
    /\ everProposed = {}
    /\ everPassed = {}
    /\ subs = <<>>
    /\ sending = {}
    /\ doneTx = {}
    /\ epochSwitchInfo = [chainID \in SideChains |-> 0]
    /\ made = [pair \in CrossChainIDs \X ChainIDs |-> 0]
    /\ lastDeposit = NoDeposit

\* ------------------------------------------------------------------ Propose
\* start height the proposal gets: the input, or the default when it is 0
ProposeStartHeight(startHeight) ==
    IF startHeight > 0 THEN startHeight ELSE height + DefaultEpochValidPeriod

\* the EpochInfo a Propose call builds from its input
ProposeEpoch(proposer, peers, startHeight) ==
    [ID |-> epochs[curHash].ID + 1, Peers |-> SortPeers(peers),
     StartHeight |-> ProposeStartHeight(startHeight),
     Proposer |-> proposer, Status |-> ProposalStatusPropose]

\* mutant: Propose without the check of the old members retained
ProposeCheckNoOverlap(proposer, caller, peers, startHeight) ==
    IF curHash \notin DOMAIN epochs THEN "ErrEpochNotExist"
    ELSE LET curEpoch == epochs[curHash] IN
    IF ~checkAuthority(proposer, caller, curEpoch) THEN "ErrInvalidAuthority"
    ELSE IF Len(peers) = 0 THEN "ErrInvalidPeers"
    ELSE IF Len(peers) < MinProposalPeersLen \/ Len(peers) > MaxProposalPeersLen
        THEN "ErrPeersNum"
    ELSE IF \E i \in 1..Len(peers) : ~checkPeer(peers[i]) THEN "ErrInvalidPubKey"
    ELSE IF /\ startHeight > 0
            /\ \/ startHeight < height + MinEpochValidPeriod
               \/ startHeight > height + MaxEpochValidPeriod
        THEN "ErrProposalStartHeight"
    ELSE LET epoch == ProposeEpoch(proposer, peers, startHeight) IN
    IF findProposal(proposals, epoch.ID, Hash(epoch)) THEN "ErrDuplicateProposal"
    ELSE IF proposalsNum(proposals, epoch.ID, proposer) >= MaxProposalNumPerEpoch
        THEN "ErrProposalsNum"
    ELSE "Success"

\* the preconditions of Propose in the order the code checks them
ProposeCheck(proposer, caller, peers, startHeight) ==
    IF curHash \notin DOMAIN epochs THEN "ErrEpochNotExist"
    ELSE LET curEpoch == epochs[curHash] IN
    IF ~checkAuthority(proposer, caller, curEpoch) THEN "ErrInvalidAuthority"
    ELSE IF Len(peers) = 0 THEN "ErrInvalidPeers"
    ELSE IF Len(peers) < MinProposalPeersLen \/ Len(peers) > MaxProposalPeersLen
        THEN "ErrPeersNum"
    ELSE IF \E i \in 1..Len(peers) : ~checkPeer(peers[i]) THEN "ErrInvalidPubKey"
    ELSE IF OldMemberNum(curEpoch, peers) < QuorumSize(curEpoch)
        THEN "ErrOldParticipantsNumber"
    ELSE IF /\ startHeight > 0
            /\ \/ startHeight < height + MinEpochValidPeriod
               \/ startHeight > height + MaxEpochValidPeriod
        THEN "ErrProposalStartHeight"
    ELSE LET epoch == ProposeEpoch(proposer, peers, startHeight) IN
    IF findProposal(proposals, epoch.ID, Hash(epoch)) THEN "ErrDuplicateProposal"
    ELSE IF proposalsNum(proposals, epoch.ID, proposer) >= MaxProposalNumPerEpoch
        THEN "ErrProposalsNum"
    ELSE "Success"

\* mutant: the proposal is stored before the proposer's number of proposals
\* is checked
ProposeStoresBeforeNumCheck(proposer, caller, peers, startHeight) ==
    LET err == ProposeCheck(proposer, caller, peers, startHeight)
        epoch == ProposeEpoch(proposer, peers, startHeight)
        proposal == Hash(epoch)
    IN
    /\ Idle
    /\ UNCHANGED crossChain
    /\ lastCall' = [NoCall EXCEPT !.op = "Propose", !.origin = proposer,
                        !.caller = caller, !.res = err,
                        !.peers = peers, !.start = startHeight]
    /\ IF err \in {"Success", "ErrProposalsNum"}
       THEN /\ epochs' = MapPut(epochs, proposal, epoch)
            /\ proposals' = storeProposal(proposals, epoch.ID, proposal)
            /\ votes' = storeVote(votes, proposal, proposer)
            /\ voteTo' = storeVoteTo(voteTo, epoch.ID, proposer, proposal)
            /\ everProposed' = everProposed \cup {proposal}
            /\ UNCHANGED <<curHash, proofs, signs, signers, height, epochChangeFeed,
                           everPassed>>
       ELSE UNCHANGED <<storage, height, epochChangeFeed, everProposed, everPassed>>

Propose(proposer, caller, peers, startHeight) ==
    LET err == ProposeCheck(proposer, caller, peers, startHeight)
        epoch == ProposeEpoch(proposer, peers, startHeight)
        proposal == Hash(epoch)
    IN
    /\ Idle
    /\ UNCHANGED crossChain
    /\ lastCall' = [NoCall EXCEPT !.op = "Propose", !.origin = proposer,
                        !.caller = caller, !.res = err,
                        !.peers = peers, !.start = startHeight,
                        !.id = IF err = "Success" THEN epoch.ID ELSE 0,
                        !.hash = IF err = "Success" THEN proposal ELSE EmptyHash]
    /\ IF err = "Success"
       THEN /\ epochs' = MapPut(epochs, proposal, epoch)
            /\ proposals' = storeProposal(proposals, epoch.ID, proposal)
            /\ votes' = storeVote(votes, proposal, proposer)
            /\ voteTo' = storeVoteTo(voteTo, epoch.ID, proposer, proposal)
            /\ everProposed' = everProposed \cup {proposal}
            /\ UNCHANGED <<curHash, proofs, signs, signers, height, epochChangeFeed, everPassed>>
       ELSE UNCHANGED <<storage, height, epochChangeFeed, everProposed, everPassed>>

\* --------------------------------------------------------------------- Vote
\* mutant: a vote must name the current epoch's id
VoteExpectEpochIDSame(curEpoch) == curEpoch.ID

\* the epoch id a vote must name
VoteExpectEpochID(curEpoch) == curEpoch.ID + 1

\* mutant: the epoch id is compared only after the proposal was looked up
\* and its status checked
VoteCheckIDLast(voter, caller, epochID, proposal) ==
    IF curHash \notin DOMAIN epochs THEN "ErrEpochNotExist"
    ELSE LET curEpoch == epochs[curHash] IN
    IF ~checkAuthority(voter, caller, curEpoch) THEN "ErrInvalidAuthority"
    ELSE IF ~findProposal(proposals, epochID, proposal) THEN "ErrProposalNotExist"
    ELSE IF proposal \notin DOMAIN epochs THEN "ErrEpochNotExist"
    ELSE LET epoch == epochs[proposal] IN
    IF epoch.Status = ProposalStatusPassed THEN "ErrProposalPassed"
    ELSE IF epochID # VoteExpectEpochID(curEpoch) THEN "ErrInvalidInput"
    ELSE IF epochID # epoch.ID THEN "ErrInvalidEpoch"
    ELSE IF proposal # Hash(epoch) THEN "ErrInvalidEpoch"
    ELSE IF height + MinVoteEffectivePeriod >= epoch.StartHeight THEN "ErrVoteHeight"
    ELSE "Success"

\* the preconditions of Vote in the order the code checks them
VoteCheck(voter, caller, epochID, proposal) ==
    IF curHash \notin DOMAIN epochs THEN "ErrEpochNotExist"
    ELSE LET curEpoch == epochs[curHash] IN
    IF ~checkAuthority(voter, caller, curEpoch) THEN "ErrInvalidAuthority"
    ELSE IF epochID # VoteExpectEpochID(curEpoch) THEN "ErrInvalidInput"
    ELSE IF ~findProposal(proposals, epochID, proposal) THEN "ErrProposalNotExist"
    ELSE IF proposal \notin DOMAIN epochs THEN "ErrEpochNotExist"
    ELSE LET epoch == epochs[proposal] IN
    IF epoch.Status = ProposalStatusPassed THEN "ErrProposalPassed"
    ELSE IF epochID # epoch.ID THEN "ErrInvalidEpoch"
    ELSE IF proposal # Hash(epoch) THEN "ErrInvalidEpoch"
    ELSE IF height + MinVoteEffectivePeriod >= epoch.StartHeight THEN "ErrVoteHeight"
    ELSE "Success"

\* the proposal whose vote list the voter is deleted from when switching
VoteDeleteTarget(lastVote2, proposal) == proposal

\* the votes and vote pointers after the vote is (re)recorded
VoteRecord(voter, epochID, proposal) ==
    LET lastVote2 == findVoteTo(voteTo, epochID, voter)
        switch == lastVote2 # EmptyHash
        vt1 == IF switch THEN delVoteTo(voteTo, epochID, voter) ELSE voteTo
        vs1 == IF switch
               THEN deleteVote(votes, VoteDeleteTarget(lastVote2, proposal), voter)
               ELSE votes
    IN [voteTo |-> storeVoteTo(vt1, epochID, voter, proposal),
        votes |-> storeVote(vs1, proposal, voter)]

\* mutant: the change-epoch point is taken one vote early
VoteReachesQuorumEarly(sizeAfterVote, curEpoch) == sizeAfterVote + 1 = QuorumSize(curEpoch)

\* the change-epoch point is taken when the tally after the vote is the quorum
VoteReachesQuorum(sizeAfterVote, curEpoch) == sizeAfterVote = QuorumSize(curEpoch)

\* mutant: a passing vote leaves the current epoch hash as it was
VoteCurrentEpochHashStale(epoch) == curHash

\* the current epoch hash a passing vote stores
VoteCurrentEpochHash(epoch) == Hash(epoch)

\* the event a passing vote sends on epochChangeFeed
VoteEpochChangeEvent(epoch) ==
    [EpochID |-> epoch.StartHeight, StartHeight |-> epoch.StartHeight,
     Validators |-> MemberList(epoch), Hash |-> Hash(epoch)]

\* mutant: dirtyJob without delEpoch
dirtyJobKeepEpochs(st, last, cur) ==
    LET siblings == getProposals(st.proposals, cur.ID) \ {Hash(cur)}
        outgoing == IF siblings # {} /\ last.Peers # <<>>
                    THEN {<<cur.ID, a>> : a \in Members(last)}
                    ELSE {}
    IN [epochs |-> st.epochs,
        proposals |-> MapPut(st.proposals, cur.ID,
                             getProposals(st.proposals, cur.ID) \ siblings),
        votes |-> MapDelAll(st.votes, siblings),
        voteTo |-> MapDelAll(st.voteTo, outgoing)]

\* dirtyJob: clear the storage of the siblings of cur; st holds the key
\* families it touches
dirtyJob(st, last, cur) ==
    LET siblings == getProposals(st.proposals, cur.ID) \ {Hash(cur)}
        outgoing == IF siblings # {} /\ last.Peers # <<>>
                    THEN {<<cur.ID, a>> : a \in Members(last)}
                    ELSE {}
    IN [epochs |-> MapDelAll(st.epochs, siblings),
        proposals |-> IF siblings = {} THEN st.proposals
                      ELSE MapPut(st.proposals, cur.ID,
                                  getProposals(st.proposals, cur.ID) \ siblings),
        votes |-> MapDelAll(st.votes, siblings),
        voteTo |-> MapDelAll(st.voteTo, outgoing)]

\* epochChangeFeed.Send: each subscribed channel with room takes the event at
\* once; Send waits for every other subscribed channel
FeedSend(ss) ==
    LET full == {c \in DOMAIN ss : ss[c].len >= ss[c].cap}
    IN [subs |-> [c \in DOMAIN ss |->
                    IF c \in full THEN ss[c] ELSE [ss[c] EXCEPT !.len = @ + 1]],
        sending |-> full]

Vote(voter, caller, epochID, proposal) ==
    LET err == VoteCheck(voter, caller, epochID, proposal)
        curEpoch == epochs[curHash]
        epoch == epochs[proposal]
        sizeBeforeVote == voteSize(votes, proposal)
        lastVote2 == findVoteTo(voteTo, epochID, voter)
        rec == VoteRecord(voter, epochID, proposal)
        sizeAfterVote == voteSize(rec.votes, proposal)
        passed == [epoch EXCEPT !.Status = ProposalStatusPassed]
        cleaned == dirtyJob([epochs |-> MapPut(epochs, Hash(passed), passed),
                             proposals |-> proposals, votes |-> rec.votes,
                             voteTo |-> rec.voteTo], curEpoch, passed)
        sent == FeedSend(subs)
        reaches == /\ err = "Success"
                   /\ sizeBeforeVote < QuorumSize(curEpoch)
                   /\ ~(lastVote2 # EmptyHash /\ lastVote2 = proposal)
                   /\ VoteReachesQuorum(sizeAfterVote, curEpoch)
    IN
    /\ Idle
    /\ UNCHANGED crossChain
    /\ lastCall' = [NoCall EXCEPT !.op = "Vote", !.origin = voter, !.caller = caller,
                        !.id = epochID, !.hash = proposal,
                        !.res = IF reaches /\ sent.sending # {}
                                THEN "InSend" ELSE err]
    /\ IF err # "Success"
       THEN UNCHANGED <<storage, height, epochChangeFeed, everProposed, everPassed>>
       ELSE IF sizeBeforeVote >= QuorumSize(curEpoch)
       THEN UNCHANGED <<storage, height, epochChangeFeed, everProposed, everPassed>>
       ELSE IF lastVote2 # EmptyHash /\ lastVote2 = proposal
       THEN UNCHANGED <<storage, height, epochChangeFeed, everProposed, everPassed>>
       ELSE IF VoteReachesQuorum(sizeAfterVote, curEpoch)
       THEN /\ epochs' = cleaned.epochs
            /\ curHash' = VoteCurrentEpochHash(passed)
            /\ proofs' = MapPut(proofs, passed.ID, Hash(passed))
            /\ proposals' = cleaned.proposals
            /\ votes' = cleaned.votes
            /\ voteTo' = cleaned.voteTo
            /\ feed' = Append(feed, VoteEpochChangeEvent(passed))
            /\ subs' = sent.subs
            /\ sending' = sent.sending
            /\ everPassed' = everPassed \cup {Hash(passed)}
            /\ UNCHANGED <<signs, signers, height, everProposed>>
       ELSE /\ votes' = rec.votes
            /\ voteTo' = rec.voteTo
            /\ UNCHANGED <<curHash, epochs, proofs, proposals, signs, signers,
                           height, epochChangeFeed, everProposed, everPassed>>

\* ------------------------------------------------------ Epoch / EpochProof
Epoch ==
    IF curHash \notin DOMAIN epochs
    THEN [res |-> "ErrEpochNotExist", out |-> GenesisEpoch]
    ELSE [res |-> "Success", out |-> epochs[curHash]]

EpochProof ==
    IF curHash \notin DOMAIN epochs
    THEN [res |-> "ErrEpochNotExist", out |-> EmptyHash]
    ELSE IF epochs[curHash].ID \notin DOMAIN proofs
    THEN [res |-> "ErrEpochProofNotExist", out |-> EmptyHash]
    ELSE [res |-> "Success", out |-> proofs[epochs[curHash].ID]]

\* ------------------------------------------------------ CheckConsensusSigns
\* mutant: no duplicate-signature check
SignIsDuplicateNever(signHash, signer) == FALSE

\* the duplicate-signature check
SignIsDuplicate(signHash, signer) == findSigner(signers, signHash, signer)

\* mutant: the quorum test asks for one signer more
SignEnoughStrict(size, epoch) == size > QuorumSize(epoch)

\* the quorum test on a signer count
SignEnough(size, epoch) == size >= QuorumSize(epoch)

\* mutant: the gate without its authority check
SignAuthorityAnyone(signer, caller, epoch) == TRUE

\* the authority check of the gate: signer and caller against the epoch
SignAuthority(signer, caller, epoch) == checkAuthority(signer, caller, epoch)

CheckConsensusSigns(method, input, signer, caller) ==
    LET epoch == epochs[curHash]
        signHash == SignHash(method, input)
        sizeBeforeSign == getSignerSize(signers, signHash)
        signers1 == storeSigner(signers, signHash, signer)
        sizeAfterSign == getSignerSize(signers1, signHash)
        call == [NoCall EXCEPT !.op = "CheckConsensusSigns", !.origin = signer,
                     !.caller = caller, !.sign = signHash]
    IN
    /\ Idle
    /\ UNCHANGED crossChain
    /\ IF curHash \notin DOMAIN epochs
       THEN /\ lastCall' = [call EXCEPT !.res = "ErrEpochNotExist"]
            /\ UNCHANGED <<storage, height, epochChangeFeed, everProposed, everPassed>>
       ELSE IF ~SignAuthority(signer, caller, epoch)
       THEN /\ lastCall' = [call EXCEPT !.res = "ErrInvalidAuthority"]
            /\ UNCHANGED <<storage, height, epochChangeFeed, everProposed, everPassed>>
       ELSE IF SignIsDuplicate(signHash, signer)
       THEN \* the error return reverts the sign record a first call would store;
            \* a duplicate signer implies the record exists already
            /\ lastCall' = [call EXCEPT !.res = "ErrDuplicateSigner"]
            /\ UNCHANGED <<storage, height, epochChangeFeed, everProposed, everPassed>>
       ELSE IF SignEnough(sizeBeforeSign, epoch)
       THEN /\ lastCall' = [call EXCEPT !.res = "Success", !.approved = TRUE]
            /\ signs' = signs \cup {signHash}
            /\ UNCHANGED <<curHash, epochs, proofs, proposals, votes, voteTo, signers,
                           height, epochChangeFeed, everProposed, everPassed>>
       ELSE /\ lastCall' = [call EXCEPT !.res = "Success",
                                 !.approved = SignEnough(sizeAfterSign, epoch)]
            /\ signs' = signs \cup {signHash}
            /\ signers' = signers1
            /\ UNCHANGED <<curHash, epochs, proofs, proposals, votes, voteTo,
                           height, epochChangeFeed, everProposed, everPassed>>

\* ------------------------------------------------- storage and log failures
\* the steps of Propose that return ErrStorage or ErrEmitLog, in code order
ProposeFaults == <<"storeEpoch", "storeProposal", "storeVote", "emitEventProposed">>

\* the steps of Vote that return ErrStorage or ErrEmitLog, in code order
VoteFaults ==
    <<"deleteVote", "storeVote", "emitEventVoted", "storeEpoch", "emitEpochChange">>

\* the steps of CheckConsensusSigns that return ErrStorage or ErrEmitLog
SignFaults == <<"storeSign", "storeSigner", "emitConsensusSign">>

\* the position of a step in its call
FaultIndex(faults, at) == CHOOSE i \in DOMAIN faults : faults[i] = at

\* the error a failing step returns
FaultError(at) == IF at \in {"emitEventProposed", "emitEventVoted", "emitEpochChange",
                             "emitConsensusSign"}
                  THEN "ErrEmitLog" ELSE "ErrStorage"

\* Propose passes its checks and the step at fails: the writes before it are
\* made, the call returns the error
ProposeFails(proposer, caller, peers, startHeight, at) ==
    LET epoch == ProposeEpoch(proposer, peers, startHeight)
        proposal == Hash(epoch)
        n == FaultIndex(ProposeFaults, at)
    IN
    /\ Idle
    /\ UNCHANGED crossChain
    /\ ProposeCheck(proposer, caller, peers, startHeight) = "Success"
    /\ lastCall' = [NoCall EXCEPT !.op = "Propose", !.origin = proposer,
                        !.caller = caller, !.res = FaultError(at),
                        !.peers = peers, !.start = startHeight,
                        !.fault = at, !.snapshot = storage]
    /\ epochs' = IF n > 1 THEN MapPut(epochs, proposal, epoch) ELSE epochs
    /\ proposals' = IF n > 2 THEN storeProposal(proposals, epoch.ID, proposal)
                    ELSE proposals
    /\ votes' = IF n > 3 THEN storeVote(votes, proposal, proposer) ELSE votes
    /\ voteTo' = IF n > 3 THEN storeVoteTo(voteTo, epoch.ID, proposer, proposal)
                 ELSE voteTo
    /\ UNCHANGED <<curHash, proofs, signs, signers, height, epochChangeFeed,
                   everProposed, everPassed>>

\* Vote passes its checks, is neither redundant nor a repeat, and the step at
\* fails
VoteFails(voter, caller, epochID, proposal, at) ==
    LET curEpoch == epochs[curHash]
        epoch == epochs[proposal]
        lastVote2 == findVoteTo(voteTo, epochID, voter)
        switch == lastVote2 # EmptyHash
        rec == VoteRecord(voter, epochID, proposal)
        sizeAfterVote == voteSize(rec.votes, proposal)
        passed == [epoch EXCEPT !.Status = ProposalStatusPassed]
        n == FaultIndex(VoteFaults, at)
    IN
    /\ Idle
    /\ UNCHANGED crossChain
    /\ VoteCheck(voter, caller, epochID, proposal) = "Success"
    /\ voteSize(votes, proposal) < QuorumSize(curEpoch)
    /\ lastVote2 # proposal
    /\ at = "deleteVote" => switch
    /\ n > 3 => VoteReachesQuorum(sizeAfterVote, curEpoch)
    /\ lastCall' = [NoCall EXCEPT !.op = "Vote", !.origin = voter, !.caller = caller,
                        !.id = epochID, !.hash = proposal, !.res = FaultError(at),
                        !.fault = at, !.snapshot = storage]
    /\ voteTo' = IF n = 1 THEN delVoteTo(voteTo, epochID, voter) ELSE rec.voteTo
    /\ votes' = IF n = 1 THEN votes
                ELSE IF n = 2
                THEN IF switch
                     THEN deleteVote(votes, VoteDeleteTarget(lastVote2, proposal), voter)
                     ELSE votes
                ELSE rec.votes
    /\ epochs' = IF n > 4 THEN MapPut(epochs, Hash(passed), passed) ELSE epochs
    /\ curHash' = IF n > 4 THEN VoteCurrentEpochHash(passed) ELSE curHash
    /\ proofs' = IF n > 4 THEN MapPut(proofs, passed.ID, Hash(passed)) ELSE proofs
    /\ UNCHANGED <<proposals, signs, signers, height, epochChangeFeed,
                   everProposed, everPassed>>

\* CheckConsensusSigns passes its checks, the signature is needed, and the
\* step at fails
SignFails(method, input, signer, caller, at) ==
    LET epoch == epochs[curHash]
        signHash == SignHash(method, input)
        n == FaultIndex(SignFaults, at)
    IN
    /\ Idle
    /\ UNCHANGED crossChain
    /\ curHash \in DOMAIN epochs
    /\ SignAuthority(signer, caller, epoch)
    /\ at = "storeSign" => signHash \notin signs
    /\ n > 1 => /\ ~SignIsDuplicate(signHash, signer)
                /\ ~SignEnough(getSignerSize(signers, signHash), epoch)
    /\ lastCall' = [NoCall EXCEPT !.op = "CheckConsensusSigns", !.origin = signer,
                        !.caller = caller, !.sign = signHash, !.res = FaultError(at),
                        !.fault = at, !.snapshot = storage]
    /\ signs' = IF n > 1 THEN signs \cup {signHash} ELSE signs
    /\ signers' = IF n > 2 THEN storeSigner(signers, signHash, signer) ELSE signers
    /\ UNCHANGED <<curHash, epochs, proofs, proposals, votes, voteTo, height,
                   epochChangeFeed, everProposed, everPassed>>

\* mutant: the host closes the failed transaction and keeps its writes
HostRevertKeeps ==
    /\ lastCall.snapshot # <<>>
    /\ UNCHANGED crossChain
    /\ ~lastCall.reverted
    /\ lastCall' = [lastCall EXCEPT !.reverted = TRUE]
    /\ UNCHANGED <<storage, height, epochChangeFeed, everProposed, everPassed>>

\* the host reverts the transaction of a call that returned an error: the
\* contract's storage is as it was when the call began
HostRevert ==
    /\ lastCall.snapshot # <<>>
    /\ UNCHANGED crossChain
    /\ ~lastCall.reverted
    /\ lastCall' = [lastCall EXCEPT !.reverted = TRUE]
    /\ curHash' = lastCall.snapshot[1]
    /\ epochs' = lastCall.snapshot[2]
    /\ proofs' = lastCall.snapshot[3]
    /\ proposals' = lastCall.snapshot[4]
    /\ votes' = lastCall.snapshot[5]
    /\ voteTo' = lastCall.snapshot[6]
    /\ signs' = lastCall.snapshot[7]
    /\ signers' = lastCall.snapshot[8]
    /\ UNCHANGED <<height, epochChangeFeed, everProposed, everPassed>>

\* ------------------------------------------------ cross chain handlers
\* the call record of a MakeDepositProposal call
DepositCall(handler, chainID, crossChainID, res) ==
    [handler |-> handler, chainID |-> chainID, crossChainID |-> crossChainID,
     res |-> res]

\* OKHandler.MakeDepositProposal: srcHeight is the height the call names,
\* headerOK whether the committed header decodes, has that height and
\* verifies, switches whether its validator hashes differ, proofOK whether
\* the proof decodes and verifies, crossChainID the id in the proved value,
\* putOK whether the store takes the write
OKHandlerMakeDepositProposal(chainID, srcHeight, headerOK, switches, proofOK, crossChainID, putOK) ==
    LET call(res) == DepositCall("okex", chainID, crossChainID, res)
        info == epochSwitchInfo[chainID]
        switched == IF switches /\ srcHeight > info
                    THEN [epochSwitchInfo EXCEPT ![chainID] = srcHeight]
                    ELSE epochSwitchInfo
    IN
    /\ Idle
    /\ UNCHANGED <<storage, height, epochChangeFeed, lastCall, everProposed,
                   everPassed>>
    /\ IF chainID \notin DOMAIN epochSwitchInfo
       THEN /\ lastDeposit' = call("GetEpochSwitchInfo error")
            /\ UNCHANGED <<doneTx, epochSwitchInfo, made>>
       ELSE IF info > srcHeight
       THEN /\ lastDeposit' = call("height lower than epoch switching height")
            /\ UNCHANGED <<doneTx, epochSwitchInfo, made>>
       ELSE IF ~headerOK
       THEN /\ lastDeposit' = call("header error")
            /\ UNCHANGED <<doneTx, epochSwitchInfo, made>>
       ELSE IF ~proofOK \/ chainID \notin SideChains
       THEN /\ lastDeposit' = call("proof error")
            /\ epochSwitchInfo' = switched
            /\ UNCHANGED <<doneTx, made>>
       ELSE IF ~CheckDoneTx(doneTx, crossChainID, chainID)
       THEN /\ lastDeposit' = call("check done transaction error")
            /\ epochSwitchInfo' = switched
            /\ UNCHANGED <<doneTx, made>>
       ELSE IF ~putOK
       THEN /\ lastDeposit' = call("PutDoneTx error")
            /\ epochSwitchInfo' = switched
            /\ UNCHANGED <<doneTx, made>>
       ELSE /\ lastDeposit' = call("Success")
            /\ epochSwitchInfo' = switched
            /\ doneTx' = PutDoneTx(doneTx, crossChainID, chainID)
            /\ made' = [made EXCEPT ![<<crossChainID, chainID>>] = @ + 1]

\* mutant: the heco handler without the done-transaction check
HecoHandlerNoDoneCheck(chainID, proofOK, crossChainID, putOK) ==
    LET call(res) == DepositCall("heco", chainID, crossChainID, res) IN
    /\ Idle
    /\ UNCHANGED <<storage, height, epochChangeFeed, lastCall, everProposed,
                   everPassed, epochSwitchInfo>>
    /\ IF chainID \notin SideChains
       THEN /\ lastDeposit' = call("GetSideChain error")
            /\ UNCHANGED <<doneTx, made>>
       ELSE IF ~proofOK
       THEN /\ lastDeposit' = call("verifyFromEthTx error")
            /\ UNCHANGED <<doneTx, made>>
       ELSE IF ~putOK
       THEN /\ lastDeposit' = call("PutDoneTx error")
            /\ UNCHANGED <<doneTx, made>>
       ELSE /\ lastDeposit' = call("Success")
            /\ doneTx' = PutDoneTx(doneTx, crossChainID, chainID)
            /\ made' = [made EXCEPT ![<<crossChainID, chainID>>] = @ + 1]

\* HecoHandler.MakeDepositProposal: proofOK is whether verifyFromHecoTx
\* accepts the proof, crossChainID the id in the proved value
HecoHandlerMakeDepositProposal(chainID, proofOK, crossChainID, putOK) ==
    LET call(res) == DepositCall("heco", chainID, crossChainID, res) IN
    /\ Idle
    /\ UNCHANGED <<storage, height, epochChangeFeed, lastCall, everProposed,
                   everPassed, epochSwitchInfo>>
    /\ IF chainID \notin SideChains
       THEN /\ lastDeposit' = call("GetSideChain error")
            /\ UNCHANGED <<doneTx, made>>
       ELSE IF ~proofOK
       THEN /\ lastDeposit' = call("verifyFromEthTx error")
            /\ UNCHANGED <<doneTx, made>>
       ELSE IF ~CheckDoneTx(doneTx, crossChainID, chainID)
       THEN /\ lastDeposit' = call("check done transaction error")
            /\ UNCHANGED <<doneTx, made>>
       ELSE IF ~putOK
       THEN /\ lastDeposit' = call("PutDoneTx error")
            /\ UNCHANGED <<doneTx, made>>
       ELSE /\ lastDeposit' = call("Success")
            /\ doneTx' = PutDoneTx(doneTx, crossChainID, chainID)
            /\ made' = [made EXCEPT ![<<crossChainID, chainID>>] = @ + 1]

\* BorHandler.MakeDepositProposal: proofOK is whether verifyFromTx accepts
\* the proof, crossChainID the id in the proved value
BorHandlerMakeDepositProposal(chainID, proofOK, crossChainID, putOK) ==
    LET call(res) == DepositCall("polygon", chainID, crossChainID, res) IN
    /\ Idle
    /\ UNCHANGED <<storage, height, epochChangeFeed, lastCall, everProposed,
                   everPassed, epochSwitchInfo>>
    /\ IF chainID \notin SideChains
       THEN /\ lastDeposit' = call("GetSideChain error")
            /\ UNCHANGED <<doneTx, made>>
       ELSE IF ~proofOK
       THEN /\ lastDeposit' = call("verifyFromEthTx error")
            /\ UNCHANGED <<doneTx, made>>
       ELSE IF ~CheckDoneTx(doneTx, crossChainID, chainID)
       THEN /\ lastDeposit' = call("check done transaction error")
            /\ UNCHANGED <<doneTx, made>>
       ELSE IF ~putOK
       THEN /\ lastDeposit' = call("PutDoneTx error")
            /\ UNCHANGED <<doneTx, made>>
       ELSE /\ lastDeposit' = call("Success")
            /\ doneTx' = PutDoneTx(doneTx, crossChainID, chainID)
            /\ made' = [made EXCEPT ![<<crossChainID, chainID>>] = @ + 1]

\* -------------------------------------------------------------- environment
\* a later block: the height grows, no contract call is made
Tick ==
    /\ Idle
    /\ UNCHANGED crossChain
    /\ height + HeightStep <= MaxHeight
    /\ height' = height + HeightStep
    /\ lastCall' = NoCall
    /\ UNCHANGED <<storage, epochChangeFeed, everProposed, everPassed>>

\* the accounts that send transactions: validators 1, 2, 3 of the genesis
\* epoch and account 5, not a genesis validator; validator 4 stays silent
Origins == {1, 2, 3, 5}

\* the callers a call with this origin is made by: the origin itself, or,
\* for account 2, a contract the origin invoked
Callers(origin) == IF origin = 2 THEN {origin, ContractAddress} ELSE {origin}

\* candidate peer lists given to Propose: validator 1 leaves and account 5
\* joins; validators 3 and 4 leave and accounts 6 and 7 join
PeerLists ==
    { <<GoodPeer(5), GoodPeer(4), GoodPeer(3), GoodPeer(2)>>,
      <<GoodPeer(1), GoodPeer(2), GoodPeer(6), GoodPeer(7)>> }

\* start heights given to Propose
StartHeights == {StartAt}

\* (method, input) pairs given to CheckConsensusSigns
SignPairs == { <<"m1", "i1">> }

\* proposal hashes given to Vote: every hash a Propose call ever produced
VoteHashes == everProposed

\* epoch ids given to Vote: the current epoch's and the next one's
VoteEpochIDs == {epochs[curHash].ID, epochs[curHash].ID + 1}

ProposeCall(origins) ==
    \E proposer \in origins, peers \in PeerLists, startHeight \in StartHeights :
        \E caller \in Callers(proposer) :
            /\ ProposeCheck(proposer, caller, peers, startHeight) = "Success"
                   => Cardinality(everProposed) < MaxProposals
            /\ Propose(proposer, caller, peers, startHeight)

VoteCall(origins) ==
    \E voter \in origins, epochID \in VoteEpochIDs, proposal \in VoteHashes :
        \E caller \in Callers(voter) :
            Vote(voter, caller, epochID, proposal)

SignCall(origins) ==
    \E signer \in origins, pair \in SignPairs :
        \E caller \in Callers(signer) :
            CheckConsensusSigns(pair[1], pair[2], signer, caller)

\* governance: any account proposes and votes, blocks pass
Next == ProposeCall(Origins) \/ VoteCall(Origins) \/ Tick

Spec == Init /\ [][Next]_vars

\* the consensus-sign gate across epoch changes: any account signs and votes,
\* validators 1 and 2 propose
NextSign == SignCall(Origins) \/ ProposeCall({1, 2}) \/ VoteCall(Origins)

SpecSign == Init /\ [][NextSign]_vars

\* (method, input) pairs given to CheckConsensusSigns by the gate's callers
GateSignPairs == { <<"m1", "i1">>, <<"m1", "i2">> }

\* the sign gate called by every account, validator 4 included
GateCall ==
    \E signer \in Addresses, pair \in GateSignPairs :
        \E caller \in Callers(signer) :
            CheckConsensusSigns(pair[1], pair[2], signer, caller)

\* the consensus-sign gate with all validators signing: every account signs,
\* validator 1 proposes, validators 2 and 3 vote
NextGate == GateCall \/ ProposeCall({1}) \/ VoteCall({2, 3})

SpecGate == Init /\ [][NextGate]_vars

\* the peers 1..n, each with a matching key, in ascending order
PeersUpTo(n) == [i \in 1..n |-> GoodPeer(i)]

\* candidate peer lists given to Propose alone: none, three, four (in two
\* orders), four of which two are old members, four with one bad key,
\* a hundred, and a hundred and one
ProposePeerLists ==
    { <<>>,
      <<GoodPeer(2), GoodPeer(3), GoodPeer(4)>>,
      <<GoodPeer(5), GoodPeer(4), GoodPeer(3), GoodPeer(2)>>,
      <<GoodPeer(2), GoodPeer(3), GoodPeer(4), GoodPeer(5)>>,
      <<GoodPeer(3), GoodPeer(4), GoodPeer(5), GoodPeer(6)>>,
      <<GoodPeer(2), GoodPeer(3), GoodPeer(4), BadPeer(5)>>,
      PeersUpTo(100),
      PeersUpTo(100 + 1) }

\* start heights given with the five-peer list: the default and both ends
\* of the allowed window, one inside and one outside each
ProposeStartHeights ==
    {0, height + 59, height + 60, height + 864000, height + 864001}

\* the inputs of a Propose call: any peer list with the default start
\* height, or the four old members and a fifth with any start height
ProposeInputs ==
    {<<peers, 0>> : peers \in ProposePeerLists}
        \cup {<<PeersUpTo(5), startHeight>> : startHeight \in ProposeStartHeights}

\* validator 1 and account 5 propose
ProposeOnlyCall ==
    \E proposer \in {1, 5}, input \in ProposeInputs :
        \E caller \in Callers(proposer) :
            Propose(proposer, caller, input[1], input[2])

\* proposals only: the epoch stays the genesis epoch while blocks pass; the
\* limit of MaxProposalNumPerEpoch proposals of one proposer bounds the run
NextPropose == ProposeOnlyCall \/ Tick

SpecPropose == Init /\ [][NextPropose]_vars

\* validator 1 proposes the four old members and account 5
SuccessorCall ==
    \E proposer \in {1} :
        \E caller \in Callers(proposer) :
            /\ ProposeCheck(proposer, caller, PeersUpTo(5), StartAt) = "Success"
                   => Cardinality(everProposed) < MaxProposals
            /\ Propose(proposer, caller, PeersUpTo(5), StartAt)

\* a growing validator set: the successor keeps every member and adds one,
\* every account votes, blocks pass
NextSuccessor == SuccessorCall \/ VoteCall(Addresses) \/ Tick

SpecSuccessor == Init /\ [][NextSuccessor]_vars

\* SubscribeEpochChange: a channel of the given capacity subscribes
SubscribeEpochChange(ch, cap) ==
    /\ ch \notin DOMAIN subs
    /\ UNCHANGED crossChain
    /\ subs' = MapPut(subs, ch, [cap |-> cap, len |-> 0])
    /\ UNCHANGED <<storage, height, feed, sending, lastCall, everProposed, everPassed>>

\* the subscriber receives from its channel: it takes a buffered event, and
\* the event a Send is waiting to send on the channel goes through
ChannelReceive(ch) ==
    /\ ch \in DOMAIN subs
    /\ UNCHANGED crossChain
    /\ \/ /\ ch \in sending
          /\ sending' = sending \ {ch}
          /\ subs' = subs
       \/ /\ ch \notin sending
          /\ subs[ch].len > 0
          /\ subs' = [subs EXCEPT ![ch].len = @ - 1]
          /\ sending' = sending
    /\ UNCHANGED <<storage, height, feed, lastCall, everProposed, everPassed>>

\* Send has sent to every channel: the Vote held in it returns
VoteReturn ==
    /\ lastCall.res = "InSend"
    /\ UNCHANGED crossChain
    /\ sending = {}
    /\ lastCall' = [lastCall EXCEPT !.res = "Success"]
    /\ UNCHANGED <<storage, height, epochChangeFeed, everProposed, everPassed>>

\* the channels that subscribe, and their capacities
Channels == {"ch1", "ch2"}
Capacities == {0, 1}

FeedSubscribe == \E ch \in Channels, cap \in Capacities : SubscribeEpochChange(ch, cap)

FeedReceive == \E ch \in Channels : ChannelReceive(ch)

\* governance with subscribers of the feed: validator 1 proposes, validators
\* 2 and 3 vote, channels subscribe and their owners receive or do not
NextFeed ==
    ProposeCall({1}) \/ VoteCall({2, 3}) \/ FeedSubscribe \/ FeedReceive \/ VoteReturn

SpecFeed == Init /\ [][NextFeed]_vars

\* inputs of Propose that meet each of its preconditions or fail one: no
\* peers, three peers, a bad key, two old members only, a start height one
\* block too early, and three admissible inputs
FrameInputs ==
    { <<<<>>, 0>>,
      <<<<GoodPeer(2), GoodPeer(3), GoodPeer(4)>>, 0>>,
      <<<<GoodPeer(2), GoodPeer(3), GoodPeer(4), BadPeer(5)>>, 0>>,
      <<<<GoodPeer(3), GoodPeer(4), GoodPeer(5), GoodPeer(6)>>, 0>>,
      <<PeersUpTo(5), height + 59>>,
      <<PeersUpTo(5), StartAt>>,
      <<PeersUpTo(5), 0>>,
      <<<<GoodPeer(5), GoodPeer(4), GoodPeer(3), GoodPeer(2)>>, 0>> }

\* validator 1 proposes
FrameCall ==
    \E input \in FrameInputs : Propose(1, 1, input[1], input[2])

\* validator 2 votes, directly or through a contract, for a proposal that
\* was made or for a hash that was never proposed
FrameVoteCall ==
    \E epochID \in VoteEpochIDs, proposal \in VoteHashes \cup {Hash(GenesisEpoch)} :
        \E caller \in Callers(2) :
            Vote(2, caller, epochID, proposal)

\* every call and every way it fails: validator 1 proposes, validator 2
\* votes and signs, blocks pass
NextFrame == FrameCall \/ FrameVoteCall \/ SignCall({2}) \/ Tick

SpecFrame == Init /\ [][NextFrame]_vars

\* validator 1 proposes and a step of the call fails
ProposeFailsCall ==
    \E peers \in PeerLists, startHeight \in StartHeights :
        \E i \in DOMAIN ProposeFaults :
            ProposeFails(1, 1, peers, startHeight, ProposeFaults[i])

\* a validator votes and a step of the call fails
VoteFailsCall ==
    \E voter \in {1, 2, 3}, epochID \in VoteEpochIDs, proposal \in VoteHashes :
        \E i \in DOMAIN VoteFaults :
            VoteFails(voter, voter, epochID, proposal, VoteFaults[i])

\* validator 2 signs and a step of the call fails
SignFailsCall ==
    \E pair \in SignPairs, i \in DOMAIN SignFaults :
        SignFails(pair[1], pair[2], 2, 2, SignFaults[i])

\* governance and the gate over a storage and an event log that may fail
NextFault ==
    \/ ProposeCall({1, 3})
    \/ VoteCall({1, 2, 3})
    \/ SignCall({2})
    \/ ProposeFailsCall
    \/ VoteFailsCall
    \/ SignFailsCall
    \/ HostRevert
SpecFault == Init /\ [][NextFault]_vars

\* the contract constructed with a genesis epoch of n validators, for every
\* valid size n
InitQuorum ==
    \E n \in MinProposalPeersLen..MaxProposalPeersLen :
        LET genesis == [GenesisEpoch EXCEPT !.Peers = PeersUpTo(n)] IN
        /\ curHash = Hash(genesis)
        /\ epochs = (Hash(genesis) :> genesis)
        /\ proofs = (StartEpochID :> Hash(genesis))
        /\ proposals = <<>>
        /\ votes = <<>>
        /\ voteTo = <<>>
        /\ signs = {}
        /\ signers = <<>>
        /\ height = 1
        /\ feed = <<>>
        /\ lastCall = NoCall
        /\ everProposed = {}
        /\ everPassed = {}
        /\ subs = <<>>
        /\ sending = {}
        /\ doneTx = {}
        /\ epochSwitchInfo = [chainID \in SideChains |-> 0]
        /\ made = [pair \in CrossChainIDs \X ChainIDs |-> 0]
        /\ lastDeposit = NoDeposit

\* the gate applies the quorum of the epoch to the signatures of validators
\* 1, 2 and 3
NextQuorum == SignCall({1, 2, 3})
SpecQuorum == InitQuorum /\ [][NextQuorum]_vars

\* a call of Epoch: it returns the current epoch and writes nothing
EpochCall ==
    /\ Idle
    /\ UNCHANGED crossChain
    /\ lastCall' = [NoCall EXCEPT !.op = "Epoch", !.res = Epoch.res,
                        !.hash = Hash(Epoch.out)]
    /\ UNCHANGED <<storage, height, epochChangeFeed, everProposed, everPassed>>

\* a call of EpochProof: it returns the current epoch's proof and writes
\* nothing
EpochProofCall ==
    /\ Idle
    /\ UNCHANGED crossChain
    /\ lastCall' = [NoCall EXCEPT !.op = "EpochProof", !.res = EpochProof.res,
                        !.hash = EpochProof.out]
    /\ UNCHANGED <<storage, height, epochChangeFeed, everProposed, everPassed>>

\* every method of the contract and the gate: validators 1 and 2 propose,
\* validators 1, 2 and 3 vote, validator 2 signs, anyone reads
NextAll ==
    \/ ProposeCall({1, 2})
    \/ VoteCall({1, 2, 3})
    \/ SignCall({2})
    \/ EpochCall
    \/ EpochProofCall
SpecAll == Init /\ [][NextAll]_vars

\* deposits are proposed through the okex handler, with every outcome of its
\* checks
OKDepositCall ==
    \E chainID \in ChainIDs, h \in SourceHeights, crossChainID \in CrossChainIDs :
        \E headerOK \in BOOLEAN, switches \in BOOLEAN, proofOK \in BOOLEAN,
           putOK \in BOOLEAN :
            /\ made[<<crossChainID, chainID>>] < MaxMade
            /\ OKHandlerMakeDepositProposal(chainID, h, headerOK, switches, proofOK,
                                            crossChainID, putOK)

\* deposits are proposed through the heco handler
HecoDepositCall ==
    \E chainID \in ChainIDs, crossChainID \in CrossChainIDs :
        \E proofOK \in BOOLEAN, putOK \in BOOLEAN :
            /\ made[<<crossChainID, chainID>>] < MaxMade
            /\ HecoHandlerMakeDepositProposal(chainID, proofOK, crossChainID, putOK)

\* deposits are proposed through the polygon handler
BorDepositCall ==
    \E chainID \in ChainIDs, crossChainID \in CrossChainIDs :
        \E proofOK \in BOOLEAN, putOK \in BOOLEAN :
            /\ made[<<crossChainID, chainID>>] < MaxMade
            /\ BorHandlerMakeDepositProposal(chainID, proofOK, crossChainID, putOK)

NextDeposit == OKDepositCall \/ HecoDepositCall \/ BorDepositCall
SpecDeposit == Init /\ [][NextDeposit]_vars

\* ================================================================== claims
\* hashes whose stored EpochInfo has status Passed
PassedSet == {h \in DOMAIN epochs : epochs[h].Status = ProposalStatusPassed}

\* the last call passed the authority check of the epoch now current
LastCallAuthorized == checkAuthority(lastCall.origin, lastCall.caller, epochs[curHash])

\* C1: the Vote call after which the tally equals the quorum of the current
\* epoch, and no other call, sets the proposal Passed, makes it the current
\* epoch (hash and proof) and publishes exactly one epoch-change event.
C1_EpochChanged ==
    \/ feed' # feed
    \/ curHash' # curHash
    \/ proofs' # proofs
    \/ everPassed' # everPassed
    \/ PassedSet' # PassedSet

C1_QuorumVote ==
    /\ lastCall'.op = "Vote"
    /\ lastCall'.res = "Success"
    /\ votes' # votes
    /\ voteSize(votes', lastCall'.hash) = QuorumSize(epochs[curHash])

C1_Transition ==
    LET h == lastCall'.hash IN
    /\ h \in DOMAIN epochs
    /\ epochs[h].Status = ProposalStatusPropose
    /\ h \in DOMAIN epochs'
    /\ epochs'[h].Status = ProposalStatusPassed
    /\ PassedSet' = PassedSet \cup {h}
    /\ curHash' = h
    /\ proofs' = MapPut(proofs, h.ID, h)
    /\ Len(feed') = Len(feed) + 1
    /\ SubSeq(feed', 1, Len(feed)) = feed
    /\ feed'[Len(feed')].Hash = h

\* C1: every step that changes the current epoch, its proof, a Passed status
\* or the feed is the quorum-reaching Vote, and that Vote does all of it once.
C1_OnlyQuorumVoteChangesEpoch ==
    [][ /\ (C1_EpochChanged => C1_QuorumVote)
        /\ (C1_QuorumVote => C1_Transition) ]_vars

C1_Witness ==
    /\ lastCall.op = "Vote"
    /\ lastCall.res = "Success"
    /\ curHash = lastCall.hash
    /\ Len(feed) = 1
    /\ feed[1].Hash = curHash
    /\ voteSize(votes, curHash) = QuorumSize(GenesisEpoch)

\* C2: for every epoch id at most one proposal ever had status Passed.
C2_OnePassedPerEpochID ==
    \A h1 \in everPassed \cup PassedSet : \A h2 \in everPassed \cup PassedSet :
        h1.ID = h2.ID => h1 = h2

C2_Witness ==
    \E w \in everPassed : \E h \in everProposed : h # w /\ h.ID = w.ID

\* C3: a voter whose live vote for id k is on A and who votes for another
\* proposal B of k, before either reached quorum, leaves A's tally one lower
\* and B's one higher, is no longer in A's vote set and points to B.
C3_VoteSwitchMovesVote ==
    [][ LET v == lastCall'.origin
            k == lastCall'.id
            b == lastCall'.hash
            a == findVoteTo(voteTo, k, v)
        IN
        ( /\ lastCall'.op = "Vote"
          /\ lastCall'.res = "Success"
          /\ a # EmptyHash
          /\ a # b
          /\ v \in getVotes(votes, a)
          /\ v \notin getVotes(votes, b)
          /\ voteSize(votes, a) < QuorumSize(epochs[curHash])
          /\ voteSize(votes, b) + 1 < QuorumSize(epochs[curHash]) )
        => /\ voteSize(votes', a) = voteSize(votes, a) - 1
           /\ voteSize(votes', b) = voteSize(votes, b) + 1
           /\ v \notin getVotes(votes', a)
           /\ findVoteTo(voteTo', k, v) = b ]_vars

\* C4: for every epoch id, a validator is in the vote set of at most one
\* proposal indexed under that id.
C4_OneLiveVotePerVoter ==
    \A k \in DOMAIN proposals : \A v \in Addresses :
        Cardinality({h \in proposals[k] : v \in getVotes(votes, h)}) <= 1

\* C5: when CheckConsensusSigns returns approved, at least quorum_size
\* distinct members of the current epoch have signed the pair.
C5_ApprovedMeansQuorumOfMembers ==
    (lastCall.op = "CheckConsensusSigns" /\ lastCall.approved)
    => Cardinality(getSigners(signers, lastCall.sign) \cap Members(epochs[curHash]))
           >= QuorumSize(epochs[curHash])

\* C6 as stated: a Vote call by a current validator for an already passed
\* proposal returns success and changes no stored key.
C6_VotePassedSucceeds ==
    [][ ( /\ lastCall'.op = "Vote"
          /\ lastCall'.hash \in PassedSet
          /\ lastCall'.id = lastCall'.hash.ID
          /\ checkAuthority(lastCall'.origin, lastCall'.caller, epochs[curHash]) )
        => /\ lastCall'.res = "Success"
           /\ UNCHANGED <<storage, feed>> ]_vars

\* C6 amended: a Vote call by a current validator naming an already passed
\* proposal (its epoch id and hash) fails with ErrInvalidInput and changes
\* no stored key.
C6_VotePassedRejected ==
    [][ ( /\ lastCall'.op = "Vote"
          /\ lastCall'.hash \in PassedSet
          /\ lastCall'.id = lastCall'.hash.ID
          /\ checkAuthority(lastCall'.origin, lastCall'.caller, epochs[curHash]) )
        => /\ lastCall'.res = "ErrInvalidInput"
           /\ UNCHANGED <<storage, feed>> ]_vars

C6_Witness ==
    /\ lastCall.op = "Vote"
    /\ lastCall.hash \in everPassed
    /\ lastCall.hash = curHash
    /\ lastCall.id = lastCall.hash.ID
    /\ LastCallAuthorized
    /\ lastCall.res = "ErrInvalidInput"

\* the last call is a Vote by a current validator that names an epoch id k
\* with a winner and another proposal that was proposed for k
C7_VoteForLoser ==
    /\ lastCall.op = "Vote"
    /\ LastCallAuthorized
    /\ lastCall.hash \in everProposed \ everPassed
    /\ lastCall.id = lastCall.hash.ID
    /\ \E w \in everPassed : w.ID = lastCall.id

\* C7 as stated: after a proposal for id k passed, a Vote naming k and a
\* different proposal proposed for k fails with ErrProposalPassed.
C7_LoserVoteProposalPassed == C7_VoteForLoser => lastCall.res = "ErrProposalPassed"

\* C7 amended: such a Vote, made by a current validator, fails with
\* ErrInvalidInput (k is no longer the current epoch id + 1).
C7_LoserVoteInvalidInput == C7_VoteForLoser => lastCall.res = "ErrInvalidInput"

C7_Witness == C7_VoteForLoser /\ lastCall.res = "ErrInvalidInput"

\* C8: once W passed for id k, Epoch returns W's EpochInfo (Passed, id k),
\* EpochProof returns W's hash, and every other proposal indexed under k has
\* no EpochInfo, no index entry and no vote set in storage.
C8_WinnerKeptSiblingsGone ==
    /\ curHash \in everPassed =>
          /\ Epoch.res = "Success"
          /\ Hash(Epoch.out) = curHash
          /\ Epoch.out.Status = ProposalStatusPassed
          /\ EpochProof = [res |-> "Success", out |-> curHash]
    /\ \A w \in everPassed : \A h \in everProposed :
          (h # w /\ h.ID = w.ID) =>
              /\ h \notin DOMAIN epochs
              /\ ~findProposal(proposals, h.ID, h)
              /\ h \notin DOMAIN votes

C8_Witness ==
    /\ lastCall.op = "Vote"
    /\ lastCall.res = "Success"
    /\ lastCall.hash = curHash
    /\ curHash \in everPassed
    /\ \E h \in everProposed : h # curHash /\ h.ID = curHash.ID

\* C9: once a proposal for id k passed, storage holds no proposal-index
\* entry, no vote set and no last-voted pointer for k, and no EpochInfo for k
\* but the winner's.
C9_NothingLeftForDecidedID ==
    \A w \in everPassed :
        /\ getProposals(proposals, w.ID) = {}
        /\ \A h \in DOMAIN votes : h.ID # w.ID
        /\ \A key \in DOMAIN voteTo : key[1] # w.ID
        /\ \A h \in DOMAIN epochs : h.ID = w.ID => h = w

\* C10 as stated: a CheckConsensusSigns call by a signer already in the
\* hash's signer set fails with ErrDuplicateSigner, the signer set unchanged.
C10_ResignIsDuplicate ==
    [][ ( /\ lastCall'.op = "CheckConsensusSigns"
          /\ lastCall'.caller = lastCall'.origin
          /\ findSigner(signers, lastCall'.sign, lastCall'.origin) )
        => /\ lastCall'.res = "ErrDuplicateSigner"
           /\ signers' = signers ]_vars

\* C10 amended: such a call by a signer who is still a member of the current
\* epoch fails with ErrDuplicateSigner, the signer set unchanged.
C10_MemberResignIsDuplicate ==
    [][ ( /\ lastCall'.op = "CheckConsensusSigns"
          /\ checkAuthority(lastCall'.origin, lastCall'.caller, epochs[curHash])
          /\ findSigner(signers, lastCall'.sign, lastCall'.origin) )
        => /\ lastCall'.res = "ErrDuplicateSigner"
           /\ signers' = signers ]_vars

C10_Witness ==
    /\ lastCall.op = "CheckConsensusSigns"
    /\ lastCall.res = "ErrDuplicateSigner"
    /\ findSigner(signers, lastCall.sign, lastCall.origin)
    /\ everPassed # {}

\* the step is a CheckConsensusSigns call that passes the authority check
C11_MemberSigns ==
    /\ lastCall'.op = "CheckConsensusSigns"
    /\ checkAuthority(lastCall'.origin, lastCall'.caller, epochs[curHash])

\* C11 as stated: once the signer set of a hash has reached the quorum of the
\* current epoch, every call by a current validator for that hash returns
\* approved = true and adds nothing to the signer set.
C11_EveryLaterCallApproved ==
    [][ ( /\ C11_MemberSigns
          /\ getSignerSize(signers, lastCall'.sign) >= QuorumSize(epochs[curHash]) )
        => /\ lastCall'.approved
           /\ signers' = signers ]_vars

\* C11 amended: a call by a current validator not yet in the hash's signer
\* set returns approved = false and records the signer while the count stays
\* below the quorum, approved = true and records the signer when the count
\* becomes the quorum, and approved = true without recording when the count
\* had reached the quorum before the call.
C11_ThresholdSequence ==
    [][ LET sh == lastCall'.sign
            who == lastCall'.origin
            n == getSignerSize(signers, sh)
            q == QuorumSize(epochs[curHash])
        IN
        ( C11_MemberSigns /\ ~findSigner(signers, sh, who) )
        => /\ lastCall'.res = "Success"
           /\ n + 1 < q => ( /\ ~lastCall'.approved
                             /\ signers' = storeSigner(signers, sh, who) )
           /\ n + 1 = q => ( /\ lastCall'.approved
                             /\ signers' = storeSigner(signers, sh, who) )
           /\ n >= q => ( /\ lastCall'.approved
                          /\ signers' = signers ) ]_vars

C11_Witness ==
    /\ lastCall.op = "CheckConsensusSigns"
    /\ lastCall.res = "Success"
    /\ lastCall.approved
    /\ everPassed = {}
    /\ ~findSigner(signers, lastCall.sign, lastCall.origin)
    /\ getSignerSize(signers, lastCall.sign) = QuorumSize(GenesisEpoch)

\* the addresses a step adds to some vote set, and to some signer set
C12_NewVoters ==
    UNION {getVotes(votes', h) \ getVotes(votes, h) : h \in DOMAIN votes'}

C12_NewSigners ==
    UNION {getSigners(signers', sh) \ getSigners(signers, sh) : sh \in DOMAIN signers'}

\* C12: a Propose, Vote or CheckConsensusSigns call whose origin is not a
\* member of the current epoch, or whose caller is not the origin, fails with
\* ErrInvalidAuthority and changes no stored key; every vote, self-vote and
\* signer a step records belongs to a member of the epoch current at the call.
C12_OnlyMembersAct ==
    [][ /\ ( /\ lastCall'.op \in {"Propose", "Vote", "CheckConsensusSigns"}
             /\ ~checkAuthority(lastCall'.origin, lastCall'.caller, epochs[curHash]) )
           => /\ lastCall'.res = "ErrInvalidAuthority"
              /\ UNCHANGED storage
        /\ C12_NewVoters \subseteq Members(epochs[curHash])
        /\ C12_NewSigners \subseteq Members(epochs[curHash]) ]_vars

C12_Witness ==
    /\ lastCall.op = "CheckConsensusSigns"
    /\ lastCall.res = "ErrInvalidAuthority"
    /\ lastCall.origin = lastCall.caller
    /\ lastCall.origin \in Members(GenesisEpoch) \ Members(epochs[curHash])
    /\ \E sh \in DOMAIN signers : signers[sh] # {}

\* the step is a Propose call that passes the authority check
C13_MemberProposes ==
    /\ lastCall'.op = "Propose"
    /\ checkAuthority(lastCall'.origin, lastCall'.caller, epochs[curHash])

\* the preconditions of Propose other than the number of peers hold
C13_OtherwiseValid ==
    LET peers == lastCall'.peers
        start == lastCall'.start
        who == lastCall'.origin
        k == epochs[curHash].ID + 1
        sorted == SortPeers(peers)
        stored == IF start = 0 THEN height + 86400 ELSE start
        h == [ID |-> k, Peers |-> sorted, StartHeight |-> stored, Proposer |-> who]
    IN /\ \A i \in 1..Len(peers) : checkPeer(peers[i])
       /\ OldMemberNum(epochs[curHash], peers) >= QuorumSize(epochs[curHash])
       /\ start = 0 \/ (start >= height + 60 /\ start <= height + 864000)
       /\ ~findProposal(proposals, k, h)
       /\ proposalsNum(proposals, k, who) < 3

\* C13: a Propose call by a current validator with fewer than 4 or more than
\* 100 peers fails with an invalid-peer-set error and writes nothing; with
\* exactly 4 or exactly 100 peers and all other preconditions met it succeeds.
C13_PeerCountBounds ==
    [][ C13_MemberProposes =>
          /\ (Len(lastCall'.peers) < 4 \/ Len(lastCall'.peers) > 100)
                => /\ lastCall'.res \in {"ErrInvalidPeers", "ErrPeersNum"}
                   /\ UNCHANGED storage
          /\ (Len(lastCall'.peers) \in {4, 100} /\ C13_OtherwiseValid)
                => /\ lastCall'.res = "Success"
                   /\ findProposal(proposals', lastCall'.id, lastCall'.hash)
                   /\ Len(lastCall'.hash.Peers) = Len(lastCall'.peers) ]_vars

C13_Witness ==
    /\ lastCall.op = "Propose"
    /\ lastCall.res = "Success"
    /\ Len(lastCall.peers) = 100
    /\ \E h \in getProposals(proposals, lastCall.id) : Len(h.Peers) = 4

\* the epoch that was current while proposals for epoch id k were made
C14_EpochBefore(k) == epochs[proofs[k - 1]]

\* every proposal ever stored and the current epoch retain a quorum of the
\* members of the epoch that preceded them
C14_QuorumRetained ==
    \A h \in everProposed \cup {curHash} :
        h.ID > StartEpochID =>
            Cardinality(Members(C14_EpochBefore(h.ID)) \cap Members(h))
                >= QuorumOf(Cardinality(Members(C14_EpochBefore(h.ID))))

\* C14: a Propose call by a current validator with an admissible peer list,
\* fewer than quorum_size of whose addresses are members of the current
\* epoch, fails with ErrOldParticipantsNumber and no call with such a list
\* stores anything; so every stored proposal and every epoch that becomes
\* current shares a quorum of members with the epoch current at the proposal.
C14_OldMemberOverlap ==
    [][ /\ ( /\ lastCall'.op = "Propose"
             /\ Cardinality(Members(epochs[curHash])
                     \cap {lastCall'.peers[i].Address : i \in 1..Len(lastCall'.peers)})
                    < QuorumOf(Cardinality(Members(epochs[curHash]))) )
           => /\ lastCall'.res # "Success"
              /\ UNCHANGED storage
              /\ ( /\ checkAuthority(lastCall'.origin, lastCall'.caller, epochs[curHash])
                   /\ Len(lastCall'.peers) >= 4
                   /\ Len(lastCall'.peers) <= 100
                   /\ \A i \in 1..Len(lastCall'.peers) : checkPeer(lastCall'.peers[i]) )
                 => lastCall'.res = "ErrOldParticipantsNumber"
        /\ C14_QuorumRetained' ]_vars

C14_Witness ==
    /\ lastCall.op = "Propose"
    /\ lastCall.res = "ErrOldParticipantsNumber"
    /\ curHash \in everPassed
    /\ \E h \in everProposed : h.ID = curHash.ID + 1

\* the step is a Propose call that gets as far as building its EpochInfo
C15_YieldsEpoch ==
    LET peers == lastCall'.peers
        start == lastCall'.start
    IN /\ lastCall'.op = "Propose"
       /\ checkAuthority(lastCall'.origin, lastCall'.caller, epochs[curHash])
       /\ Len(peers) >= 4
       /\ Len(peers) <= 100
       /\ \A i \in 1..Len(peers) : checkPeer(peers[i])
       /\ OldMemberNum(epochs[curHash], peers) >= QuorumSize(epochs[curHash])
       /\ start = 0 \/ (start >= height + 60 /\ start <= height + 864000)

\* a proposal with the content the call yields is indexed under current + 1:
\* the same peers whatever their order, start height and proposer
C15_AlreadyIndexed ==
    LET peers == lastCall'.peers
        stored == IF lastCall'.start = 0 THEN height + 86400 ELSE lastCall'.start
    IN \E h \in getProposals(proposals, epochs[curHash].ID + 1) :
          /\ Len(h.Peers) = Len(peers)
          /\ {h.Peers[i] : i \in 1..Len(h.Peers)} = {peers[i] : i \in 1..Len(peers)}
          /\ h.StartHeight = stored
          /\ h.Proposer = lastCall'.origin

\* C15: a Propose call that yields an EpochInfo whose hash is already indexed
\* under current + 1 fails with ErrDuplicateProposal, storage unchanged.
C15_DuplicateProposalRejected ==
    [][ (C15_YieldsEpoch /\ C15_AlreadyIndexed)
        => /\ lastCall'.res = "ErrDuplicateProposal"
           /\ UNCHANGED storage ]_vars

C15_Witness ==
    /\ lastCall.op = "Propose"
    /\ lastCall.res = "ErrDuplicateProposal"
    /\ lastCall.peers # SortPeers(lastCall.peers)
    /\ \E h \in getProposals(proposals, epochs[curHash].ID + 1) :
          /\ h.Peers = SortPeers(lastCall.peers)
          /\ h.Proposer = lastCall.origin
          /\ getVotes(votes, h) = {lastCall.origin}

\* the proposals among hs for epoch id k that proposer authored
C16_Authored(hs, k, proposer) == {h \in hs : h.ID = k /\ h.Proposer = proposer}

\* C16: a valid Propose call whose proposal is not yet indexed succeeds while
\* its proposer authored fewer than 3 proposals for the epoch id and fails
\* with ErrProposalsNum, storage unchanged, once the proposer authored 3; no
\* proposer ever has more than 3 proposals for one epoch id.
C16_ProposalRateLimit ==
    [][ LET k == epochs[curHash].ID + 1
            who == lastCall'.origin
            n == Cardinality(C16_Authored(everProposed, k, who))
        IN
        /\ (C15_YieldsEpoch /\ ~C15_AlreadyIndexed) =>
              /\ n < 3 => /\ lastCall'.res = "Success"
                          /\ Cardinality(C16_Authored(everProposed', k, who)) = n + 1
              /\ n >= 3 => /\ lastCall'.res = "ErrProposalsNum"
                           /\ UNCHANGED storage
        /\ \A h \in everProposed' :
              /\ Cardinality(C16_Authored(everProposed', h.ID, h.Proposer)) <= 3
              /\ proposalsNum(proposals', h.ID, h.Proposer) <= 3 ]_vars

C16_Witness ==
    /\ lastCall.op = "Propose"
    /\ lastCall.res = "ErrProposalsNum"
    /\ Cardinality(C16_Authored(everProposed, epochs[curHash].ID + 1, lastCall.origin)) = 3
    /\ proposalsNum(proposals, epochs[curHash].ID + 1, lastCall.origin) = 3

\* the step is a Propose call that gets as far as the start height check
C17_ReachesStartHeight ==
    LET peers == lastCall'.peers
    IN /\ lastCall'.op = "Propose"
       /\ checkAuthority(lastCall'.origin, lastCall'.caller, epochs[curHash])
       /\ Len(peers) >= 4
       /\ Len(peers) <= 100
       /\ \A i \in 1..Len(peers) : checkPeer(peers[i])
       /\ OldMemberNum(epochs[curHash], peers) >= QuorumSize(epochs[curHash])

\* C17: at block height h a non-zero start height outside [h + 60,
\* h + 864000] is rejected with ErrProposalStartHeight, a non-zero start
\* height inside the range is stored as given and 0 is stored as h + 86400.
C17_StartHeightWindow ==
    [][ LET start == lastCall'.start
            inside == start >= height + 60 /\ start <= height + 864000
        IN
        C17_ReachesStartHeight =>
          /\ (start # 0 /\ ~inside)
                => /\ lastCall'.res = "ErrProposalStartHeight"
                   /\ UNCHANGED storage
          /\ (start = 0 \/ inside)
                => lastCall'.res \in {"Success", "ErrDuplicateProposal", "ErrProposalsNum"}
          /\ lastCall'.res = "Success"
                => /\ lastCall'.hash \in DOMAIN epochs'
                   /\ epochs'[lastCall'.hash].StartHeight
                         = IF start = 0 THEN height + 86400 ELSE start ]_vars

C17_Witness ==
    /\ lastCall.op = "Propose"
    /\ lastCall.res = "Success"
    /\ height > 1
    /\ lastCall.start = height + 864000
    /\ epochs[lastCall.hash].StartHeight = lastCall.start
    /\ \E h \in DOMAIN epochs : epochs[h].StartHeight = height + 86400

\* the step is a Vote call by a current validator that names the next epoch
\* id and a proposal indexed under it
C18_VoteForProposal ==
    /\ lastCall'.op = "Vote"
    /\ checkAuthority(lastCall'.origin, lastCall'.caller, epochs[curHash])
    /\ lastCall'.id = epochs[curHash].ID + 1
    /\ findProposal(proposals, lastCall'.id, lastCall'.hash)

\* C18: a Vote call at height h for a proposal with h + 10 >= start height
\* fails with ErrVoteHeight and changes nothing; every epoch transition
\* happens at a height h with h + 10 < the new epoch's start height.
C18_VoteWindow ==
    [][ /\ ( /\ C18_VoteForProposal
             /\ height + 10 >= lastCall'.hash.StartHeight )
           => /\ lastCall'.res = "ErrVoteHeight"
              /\ UNCHANGED <<storage, feed>>
        /\ curHash' # curHash
           => /\ height' = height
              /\ height + 10 < epochs'[curHash'].StartHeight ]_vars

C18_Witness ==
    /\ lastCall.op = "Vote"
    /\ lastCall.res = "ErrVoteHeight"
    /\ height + 10 >= lastCall.hash.StartHeight
    /\ lastCall.origin \notin getVotes(votes, lastCall.hash)
    /\ voteSize(votes, lastCall.hash) + 1 = QuorumSize(epochs[curHash])

\* the step is a Vote call inside the vote window, by a member of a current
\* epoch of 4 who has no vote on it yet, for an indexed 5-member proposal
\* that contains the 4 current members
C19_MemberVotesSuccessor ==
    LET h == lastCall'.hash IN
    /\ lastCall'.op = "Vote"
    /\ checkAuthority(lastCall'.origin, lastCall'.caller, epochs[curHash])
    /\ Cardinality(Members(epochs[curHash])) = 4
    /\ lastCall'.id = epochs[curHash].ID + 1
    /\ findProposal(proposals, lastCall'.id, h)
    /\ Len(h.Peers) = 5
    /\ Members(epochs[curHash]) \subseteq Members(h)
    /\ height + 10 < h.StartHeight
    /\ lastCall'.origin \notin getVotes(votes, h)

C20_NotificationFields ==
    [][ feed' # feed =>
          LET event == feed'[Len(feed')]
              new == epochs'[curHash']
          IN /\ Len(feed') = Len(feed) + 1
             /\ event.EpochID = new.ID
             /\ event.StartHeight = new.StartHeight
             /\ event.Validators = MemberList(new)
             /\ event.Hash = Hash(new) ]_vars

\* C21: the quorum-crossing Vote call returns whatever the subscribers do;
\* it is never held in Send waiting for a subscriber to receive.
C21_VoteNeverWaitsForSubscriber ==
    ~( /\ lastCall.op = "Vote"
       /\ lastCall.res = "InSend"
       /\ sending # {} )

\* the errors with which a call fails a precondition
C22_PreconditionErrors ==
    {"ErrInvalidAuthority", "ErrInvalidInput", "ErrInvalidPeers", "ErrPeersNum",
     "ErrInvalidPubKey", "ErrOldParticipantsNumber", "ErrProposalStartHeight",
     "ErrDuplicateProposal", "ErrProposalsNum", "ErrProposalNotExist",
     "ErrProposalPassed", "ErrInvalidEpoch", "ErrVoteHeight", "ErrDuplicateSigner",
     "ErrEpochNotExist"}

\* C22: a Propose, Vote or CheckConsensusSigns call that fails a precondition
\* leaves every stored key as it was, and sends nothing on the feed.
C22_FailureChangesNothing ==
    [][ ( /\ lastCall'.op \in {"Propose", "Vote", "CheckConsensusSigns"}
          /\ lastCall'.res \notin {"Success", "InSend"} )
        => /\ lastCall'.res \in C22_PreconditionErrors
           /\ UNCHANGED <<storage, feed>> ]_vars

\* history is not kept of the errors seen; the witness is a failed vote
\* outside the vote window after failed proposals and a repeated signature
C22_Witness ==
    /\ lastCall.op = "Vote"
    /\ lastCall.res = "ErrVoteHeight"
    /\ proposalsNum(proposals, lastCall.id, 1) = MaxProposalNumPerEpoch
    /\ getSigners(signers, SignHash("m1", "i1")) = {2}

\* C23: when Propose, Vote or CheckConsensusSigns has returned a storage or
\* event-emission error and its transaction is closed, the contract's storage
\* holds none of the writes the call made before the failure: every key
\* family is as it was when the call began
C23_FailedCallLeavesNoWrites ==
    (lastCall.res \in {"ErrStorage", "ErrEmitLog"} /\ Idle)
        => storage = lastCall.snapshot

\* a Vote that reached the quorum stored the passed epoch, the current epoch
\* hash and the proof, then failed to emit the epoch change; its transaction
\* is closed and the epoch is the genesis epoch still
C23_Witness ==
    /\ lastCall.op = "Vote"
    /\ lastCall.fault = "emitEpochChange"
    /\ lastCall.res = "ErrEmitLog"
    /\ lastCall.reverted
    /\ curHash = Hash(GenesisEpoch)
    /\ lastCall.origin \notin getVotes(votes, lastCall.hash)

\* the subsets of 1..n that have q elements
C24_Quorums(n, q) == {S \in SUBSET (1..n) : Cardinality(S) = q}

\* C24: for the current epoch's member count n in [4, 100], the quorum is at
\* most n and two quorums together exceed n, so that (enumerated for n up to
\* twice the minimum) any two member subsets of quorum size share a member
C24_QuorumBounds ==
    LET epoch == epochs[curHash]
        n == Len(epoch.Peers)
        q == QuorumSize(epoch)
    IN (n >= MinProposalPeersLen /\ n <= MaxProposalPeersLen)
        => /\ q <= n
           /\ 2 * q > n
           /\ n <= 2 * MinProposalPeersLen
                => \A S \in C24_Quorums(n, q), T \in C24_Quorums(n, q) : S \cap T # {}

\* the gate has counted the signatures of three validators against the quorum
\* of an epoch of a hundred members and does not approve
C24_Witness ==
    /\ Len(epochs[curHash].Peers) = MaxProposalPeersLen
    /\ lastCall.op = "CheckConsensusSigns"
    /\ lastCall.res = "Success"
    /\ ~lastCall.approved
    /\ getSignerSize(signers, lastCall.sign) = 3

\* C25 as stated: after every Vote that crosses the quorum for epoch id k, no
\* member of the outgoing epoch has a last-voted pointer stored for k,
\* however many proposals were indexed under k
C25_NoPointerAfterTransition ==
    [][ curHash' # curHash
        => \A a \in Members(epochs[curHash]) :
               findVoteTo(voteTo', epochs'[curHash'].ID, a) = EmptyHash ]_vars

\* the call just made is a Vote naming an epoch id other than the current
\* epoch's id plus one
C26_WrongIDVote ==
    /\ lastCall'.op = "Vote"
    /\ lastCall'.id # epochs[curHash].ID + 1

\* C26 as stated: a Vote whose epoch id differs from the current id plus one
\* fails with ErrInvalidInput and changes no state
C26_WrongIDIsInvalidInput ==
    [][ C26_WrongIDVote
        => /\ lastCall'.res = "ErrInvalidInput"
           /\ UNCHANGED <<storage, feed>> ]_vars

\* C26 amended: a Vote whose epoch id differs from the current id plus one
\* fails, with ErrInvalidInput when origin and caller pass the authority check
\* and with ErrInvalidAuthority when they do not, and changes no state; a Vote
\* changes votes or pointers only for a proposal of the current id plus one;
\* the current epoch id advances by exactly one per transition
C26_VotesOnlyForNextEpoch ==
    [][ /\ C26_WrongIDVote
           => /\ lastCall'.res =
                    IF checkAuthority(lastCall'.origin, lastCall'.caller, epochs[curHash])
                    THEN "ErrInvalidInput" ELSE "ErrInvalidAuthority"
              /\ UNCHANGED <<storage, feed>>
        /\ (lastCall'.op = "Vote" /\ <<votes, voteTo>>' # <<votes, voteTo>>)
           => /\ lastCall'.id = epochs[curHash].ID + 1
              /\ lastCall'.hash.ID = epochs[curHash].ID + 1
        /\ curHash' # curHash
           => epochs'[curHash'].ID = epochs[curHash].ID + 1 ]_vars

\* after a transition a validator of the new epoch votes for the proposal
\* that passed, under its id, which is now current, and gets ErrInvalidInput
C26_Witness ==
    /\ lastCall.op = "Vote"
    /\ lastCall.res = "ErrInvalidInput"
    /\ curHash \in everPassed
    /\ lastCall.id = epochs[curHash].ID
    /\ lastCall.hash \in DOMAIN epochs

\* the call just made is a Vote after which the tally of its proposal equals
\* the quorum of the current epoch
C27_QuorumReachingVote ==
    /\ lastCall'.op = "Vote"
    /\ lastCall'.res = "Success"
    /\ votes' # votes
    /\ voteSize(votes', lastCall'.hash) = QuorumSize(epochs[curHash])

\* C27: the current-epoch hash and the epoch proof, and with them what Epoch
\* and EpochProof return, change only in a Vote call whose resulting tally
\* equals the quorum of the current epoch; Propose, every other Vote, Epoch,
\* EpochProof and CheckConsensusSigns leave them as they are
C27_OnlyQuorumVoteMovesEpoch ==
    [][ /\ C27_QuorumReachingVote
           => /\ curHash' = lastCall'.hash
              /\ proofs' = MapPut(proofs, lastCall'.hash.ID, lastCall'.hash)
        /\ ~C27_QuorumReachingVote
           => /\ UNCHANGED <<curHash, proofs>>
              /\ Epoch' = Epoch
              /\ EpochProof' = EpochProof ]_vars

\* after a transition and a CheckConsensusSigns call by a validator, Epoch is
\* called and returns the epoch that passed
C27_Witness ==
    /\ lastCall.op = "Epoch"
    /\ lastCall.res = "Success"
    /\ lastCall.hash = curHash
    /\ curHash \in everPassed
    /\ signs # {}

\* the pointer keys whose value differs between two pointer maps
C28_ChangedKeys(old, new) ==
    {key \in DOMAIN old \cup DOMAIN new :
        \/ key \notin DOMAIN old
        \/ key \notin DOMAIN new
        \/ old[key] # new[key]}

\* C28: a Vote that gets as far as reading the voter's pointer reads it for
\* the current id plus one, an id above that of every proposal that passed;
\* the pointers a call changes are those of that id only; and a transition
\* moves to an id above every decided one. A pointer left for a decided id is
\* thus never read again.
C28_LeftoverPointersNeverRead ==
    [][ /\ (lastCall'.op = "Vote" /\ lastCall'.res = "Success")
           => /\ lastCall'.id = epochs[curHash].ID + 1
              /\ \A w \in everPassed : w.ID < lastCall'.id
        /\ \A key \in C28_ChangedKeys(voteTo, voteTo') :
               /\ key[1] = epochs[curHash].ID + 1
               /\ \A w \in everPassed : w.ID < key[1]
        /\ curHash' # curHash
           => \A w \in everPassed : w.ID < epochs'[curHash'].ID ]_vars

\* in the second cycle a validator whose pointer for the decided id 2 was
\* left in storage votes for a proposal of id 3; the vote is recorded under
\* a pointer of id 3
C28_Witness ==
    /\ lastCall.op = "Vote"
    /\ lastCall.res = "Success"
    /\ lastCall.id = 3
    /\ <<2, lastCall.origin>> \in DOMAIN voteTo
    /\ findVoteTo(voteTo, 3, lastCall.origin) = lastCall.hash
    /\ lastCall.origin \in getVotes(votes, lastCall.hash)

====
